---------------------------- MODULE Spec2Model ----------------------------
(***************************************************************************)
(* TorrentUtilsR: the metainfo engine.                                     *)
(*   - piece planner, per-piece hasher and verifier   (src/src/tr_info.rs) *)
(*   - bencode encoder and decoder, Torrent assembler (src/src/torrent.rs) *)
(* Indices stored in data (file_index, file_offset, piece indices) are     *)
(* 0-based as in the Rust code; TLA+ sequences are 1-based, so element i   *)
(* of a Vec v is v[i + 1].                                                 *)
(* Option<T> is a sequence of length 0 (None) or 1 (Some(x)).              *)
(* A byte is a string; a byte string is a sequence of bytes.               *)
(***************************************************************************)
EXTENDS Integers, Sequences, FiniteSets, TLC

VARIABLES
    disk,             \* the target on disk: relative path -> file content
    target_is_file,   \* base_metadata.is_file() of the target
    info,             \* Option<TrInfo>: the InfoBlock built by TrInfo::new
    piece_file_info,  \* the plan of the latest hash_tr_files call
    report,           \* Option<FailedInfo>: result of the latest verify
    pc,               \* position in the create / modify / verify lifecycle
    change,           \* what was done to the target after creation
    hp_args,          \* Option: arguments of the hash_tr_files call in flight
    todo,             \* pieces of the plan no worker has taken yet
    running,          \* pieces being hashed by a worker of the pool
    slots,            \* piece index -> Option<result of the map closure>
    finished,         \* piece indices in the order the workers finished
    hp_result,        \* Option<TrResult<Vec<u8>>>: what hash_tr_files returned
    torrent,          \* Option<Torrent>: the Torrent being assembled
    tfile,            \* Option<bytes>: the .torrent file, None when absent
    wr,               \* Option<io::Result<()>>: result of the latest write_to_file
    wr_call,          \* Option: force, and the file at torrent_path, at that call
    rd,               \* Option<Result<Torrent>>: result of the latest read_torrent
    walk              \* Option: walk mode, enumeration order and sorted file list

varsV == <<disk, target_is_file, info, piece_file_info, report, pc, change>>
varsH == <<hp_args, todo, running, slots, finished, hp_result>>
varsC == <<torrent, tfile, wr, wr_call, rd>>
vars == <<varsV, varsH, varsC, walk>>

-----------------------------------------------------------------------------
(* Bounds of the model *)

MaxFiles == 3
MaxLen == 3
MaxPiece == 3
MaxHashTotal == 4   \* total bytes of a target hashed step by step
MaxJobs == 2        \* largest n_jobs
NumCpus == 2        \* workers of the pool when n_jobs = 0
MaxCodecFiles == 2  \* files of a target that is assembled into a Torrent
MaxCodecLen == 1    \* bytes of each such file
MaxPieceShift == 1  \* largest piece_size (log2 of the piece length)
MaxPartial == 1     \* most bytes on disk when a write is followed from its failure

-----------------------------------------------------------------------------
(* Generic helpers *)

None == <<>>
Some(x) == <<x>>
IsSome(o) == Len(o) = 1
Unwrap(o) == o[1]

Min(a, b) == IF a <= b THEN a ELSE b

RECURSIVE Flatten(_)
Flatten(ss) == IF ss = <<>> THEN <<>> ELSE Head(ss) \o Flatten(Tail(ss))

RECURSIVE SumLengths(_)
\* tr_files.iter().map(|f| f.length).sum()
SumLengths(tr_files) ==
    IF tr_files = <<>> THEN 0
    ELSE Head(tr_files).length + SumLengths(Tail(tr_files))

RECURSIVE SumTriples(_)
SumTriples(piece) ==
    IF piece = <<>> THEN 0 ELSE Head(piece).length + SumTriples(Tail(piece))

DivCeil(a, b) == (a + b - 1) \div b

Digits == <<"0", "1", "2", "3", "4", "5", "6", "7", "8", "9">>

-----------------------------------------------------------------------------
(* SHA-1.  Digests are treated as collision-free: the digest of a byte     *)
(* string is SHA1_HASH_SIZE bytes that name the hashed bytes.              *)

SHA1_HASH_SIZE == 20

Sha1(bytes) == [i \in 1..SHA1_HASH_SIZE |-> "#" \o ToString(bytes)]

-----------------------------------------------------------------------------
(* The file model *)

TrFile(length, path) == [length |-> length, path |-> path]

\* tr_file.join_full_path(base_path): the base path itself for an empty
\* path, else base_path joined with the segments.  Paths are kept relative
\* to the base path, which is the key of the file in disk.
JoinFullPath(tr_file) == tr_file.path

\* metadata(&f_path).ok().is_some_and(|meta| meta.len() == tr_file.length)
FileOkMutLonger(d, f_path, tr_file) ==
    f_path \in DOMAIN d /\ Len(d[f_path]) > tr_file.length

FileOk(d, f_path, tr_file) ==
    f_path \in DOMAIN d /\ Len(d[f_path]) = tr_file.length

-----------------------------------------------------------------------------
(* Piece planner: calc_piece_file_info *)

FileHashInfo(file_index, file_offset, length) ==
    [file_index |-> file_index, file_offset |-> file_offset, length |-> length]

UsedSizeMutRest(rest_size, unfilled_size) == rest_size

\* let used_size = cmp::min(rest_size, unfilled_size);
UsedSize(rest_size, unfilled_size) == Min(rest_size, unfilled_size)

NeedsNewPieceMutEarly(unfilled_size) == unfilled_size <= 1

\* if unfilled_size == 0 { push(Vec::new()); unfilled_size = piece_length }
NeedsNewPiece(unfilled_size) == unfilled_size = 0

RECURSIVE PlanFile(_, _, _, _, _)
\* the while rest_size > 0 loop for one file; st = [pfi, unfilled_size]
PlanFile(st, file_index, file_offset, rest_size, piece_length) ==
    IF rest_size = 0 THEN st
    ELSE
      LET opened == IF NeedsNewPiece(st.unfilled_size)
                    THEN [pfi |-> Append(st.pfi, <<>>),
                          unfilled_size |-> piece_length]
                    ELSE st
          used_size == UsedSize(rest_size, opened.unfilled_size)
          last == Len(opened.pfi)
          pushed == [opened.pfi EXCEPT ![last] =
                        Append(@, FileHashInfo(file_index, file_offset, used_size))]
      IN PlanFile([pfi |-> pushed,
                   unfilled_size |-> opened.unfilled_size - used_size],
                  file_index, file_offset + used_size, rest_size - used_size,
                  piece_length)

RECURSIVE PlanFilesMutReset(_, _, _, _)
\* as PlanFiles, with unfilled_size declared inside the for loop
PlanFilesMutReset(st, tr_files, file_index, piece_length) ==
    IF file_index >= Len(tr_files) THEN st
    ELSE PlanFilesMutReset(
            PlanFile([st EXCEPT !.unfilled_size = 0], file_index, 0,
                     tr_files[file_index + 1].length, piece_length),
            tr_files, file_index + 1, piece_length)

RECURSIVE PlanFiles(_, _, _, _)
\* for (file_index, tr_file) in tr_files.iter().enumerate()
PlanFiles(st, tr_files, file_index, piece_length) ==
    IF file_index >= Len(tr_files) THEN st
    ELSE PlanFiles(PlanFile(st, file_index, 0, tr_files[file_index + 1].length,
                            piece_length),
                   tr_files, file_index + 1, piece_length)

calc_piece_file_info(tr_files, piece_length) ==
    PlanFiles([pfi |-> <<>>, unfilled_size |-> 0], tr_files, 0, piece_length).pfi

-----------------------------------------------------------------------------
(* Hasher: hash_piece_file and hash_tr_files.  Results are                 *)
(* [ok |-> TRUE, v |-> value] or [ok |-> FALSE, err |-> kind].             *)

Ok(v) == [ok |-> TRUE, v |-> v]
Err(e) == [ok |-> FALSE, err |-> e]

\* TrError::IO(err), as the ? operator builds it from an io::Error: the
\* variant and the io::Error, of which the model keeps the ErrorKind
TrError_IO(kind) == [variant |-> "IO", kind |-> kind]

\* File::open, seek(Start(file_offset)), one read into buf[..length]:
\* the bytes of the file from file_offset, at most length of them.
ReadAt(content, file_offset, length) ==
    SubSeq(content, file_offset + 1, Min(Len(content), file_offset + length))

\* File::open(f_path)? fails when the file does not exist
CanOpen(d, tr_files, fhi) ==
    JoinFullPath(tr_files[fhi.file_index + 1]) \in DOMAIN d

RECURSIVE PieceBytes(_, _, _)
\* the bytes fed to one piece's hasher, triple after triple
PieceBytes(d, tr_files, piece) ==
    IF piece = <<>> THEN <<>>
    ELSE LET fhi == Head(piece)
             f_path == JoinFullPath(tr_files[fhi.file_index + 1])
         IN ReadAt(d[f_path], fhi.file_offset, fhi.length)
            \o PieceBytes(d, tr_files, Tail(piece))

\* the closure mapped over one piece
HashOnePiece(d, tr_files, piece) ==
    IF \A k \in 1..Len(piece) : CanOpen(d, tr_files, piece[k])
    THEN Ok(Sha1(PieceBytes(d, tr_files, piece)))
    ELSE Err(TrError_IO("NotFound"))

\* piece_file_info.par_iter().map(..).collect::<Result<Vec<_>, _>>():
\* the digests in piece order, or an error when any piece failed
hash_piece_file(d, tr_files, pfi) ==
    LET each == [i \in 1..Len(pfi) |-> HashOnePiece(d, tr_files, pfi[i])]
    IN IF \A i \in 1..Len(pfi) : each[i].ok
       THEN Ok([i \in 1..Len(pfi) |-> each[i].v])
       ELSE Err(TrError_IO("NotFound"))

hash_tr_filesMutShort(d, tr_files, chunk_size) ==
    LET pfi == calc_piece_file_info(tr_files, chunk_size)
        piece_slices == hash_piece_file(d, tr_files, pfi)
        whole == SumLengths(tr_files) \div chunk_size
    IN IF piece_slices.ok THEN Ok(Flatten(SubSeq(piece_slices.v, 1, whole)))
       ELSE piece_slices

hash_tr_files(d, tr_files, chunk_size) ==
    LET pfi == calc_piece_file_info(tr_files, chunk_size)
        piece_slices == hash_piece_file(d, tr_files, pfi)
    IN IF piece_slices.ok THEN Ok(Flatten(piece_slices.v)) ELSE piece_slices

\* split_hash_pieces: piece.len() / SHA1_HASH_SIZE slices of 20 bytes
split_hash_pieces(piece) ==
    [i \in 1..(Len(piece) \div SHA1_HASH_SIZE) |->
        SubSeq(piece, (i - 1) * SHA1_HASH_SIZE + 1, i * SHA1_HASH_SIZE)]

-----------------------------------------------------------------------------
(* Verifier: verify_tr_files *)

TouchedFilesMutFirst(piece) == {piece[1].file_index}

\* for file_hash_info in piece { failed_info.files.insert(file_index) }
TouchedFiles(piece) == {piece[k].file_index : k \in 1..Len(piece)}

RECURSIVE PreCheckPiece(_, _, _, _, _)
\* for file_hash_info in piece: stat each file once, cache the answer in
\* file_status_map; st = [file_status_map, files_known, files_ok]
PreCheckPiece(d, tr_files, piece, k, st) ==
    IF k > Len(piece) THEN st
    ELSE
      LET fhi == piece[k]
          tr_file == tr_files[fhi.file_index + 1]
          f_path == JoinFullPath(tr_file)
          file_ok == FileOk(d, f_path, tr_file)
          next ==
            IF f_path \notin DOMAIN st.file_status_map
            THEN [file_status_map |-> st.file_status_map @@ (f_path :> file_ok),
                  files_known |-> IF file_ok THEN st.files_known
                                  ELSE st.files_known \cup {fhi.file_index},
                  files_ok |-> st.files_ok /\ file_ok]
            ELSE [st EXCEPT !.files_ok = @ /\ st.file_status_map[f_path]]
      IN PreCheckPiece(d, tr_files, piece, k + 1, next)

RECURSIVE PreCheck(_, _, _, _, _)
\* for (i, piece) in piece_file_info.iter().enumerate();
\* st = [file_status_map, files, files_known, pieces]
PreCheck(d, tr_files, pfi, i, st) ==
    IF i >= Len(pfi) THEN st
    ELSE
      LET piece == pfi[i + 1]
          r == PreCheckPiece(d, tr_files, piece, 1,
                  [file_status_map |-> st.file_status_map,
                   files_known |-> st.files_known,
                   files_ok |-> TRUE])
          next == [file_status_map |-> r.file_status_map,
                   files_known |-> r.files_known,
                   pieces |-> IF r.files_ok THEN st.pieces
                              ELSE st.pieces \cup {i},
                   files |-> IF r.files_ok THEN st.files
                             ELSE st.files \cup TouchedFiles(piece)]
      IN PreCheck(d, tr_files, pfi, i + 1, next)

FailedInfo(files, files_known, pieces) ==
    [files |-> files, files_known |-> files_known, pieces |-> pieces]

\* *piece_calc_hash != piece_slices[pieces_to_check[i]]
HashDiffers(piece_calc_hash, stored) == piece_calc_hash # stored

verify_tr_files(piece_slices, tr_files, d, piece_length) ==
    LET pfi == calc_piece_file_info(tr_files, piece_length)
        pre == PreCheck(d, tr_files, pfi, 0,
                  [file_status_map |-> <<>>, files |-> {},
                   files_known |-> {}, pieces |-> {}])
        pieces_count == Len(piece_slices)
        pieces_to_check_count == pieces_count - Cardinality(pre.pieces)
        \* the indices i of the plan with !failed_info.pieces.contains(&i)
        pieces_to_check ==
            SelectSeq([j \in 1..Len(pfi) |-> j - 1], LAMBDA i : i \notin pre.pieces)
        filtered == [j \in 1..Len(pieces_to_check) |-> pfi[pieces_to_check[j] + 1]]
        calc == hash_piece_file(d, tr_files, filtered)
        bad == {j \in 1..Len(pieces_to_check) :
                   HashDiffers(calc.v[j], piece_slices[pieces_to_check[j] + 1])}
    IN  IF pieces_to_check_count < 0 THEN Err("panic: subtract with overflow")
        ELSE IF ~calc.ok THEN calc
        ELSE IF \E j \in 1..Len(pieces_to_check) :
                    pieces_to_check[j] >= pieces_count
        THEN Err("panic: index out of bounds")
        ELSE Ok(FailedInfo(
                pre.files \cup UNION {TouchedFiles(filtered[j]) : j \in bad},
                pre.files_known,
                pre.pieces \cup {pieces_to_check[j] : j \in bad}))

-----------------------------------------------------------------------------
(* TrInfo (src/src/tr_info.rs) *)

TargetName == <<"t">>

\* the relative path of the k-th file the directory walk yields
FilePath(k) == << <<"f", Digits[k + 1]>> >>

\* WalkDir::new(base_path): the regular files under the target, in the
\* order of the walk; files are named by their position in that order
WalkDir(d) ==
    SelectSeq([k \in 1..MaxFiles |-> FilePath(k)],
              LAMBDA p : p \in DOMAIN d)

TrInfo(files, length, piece_length, pieces, private) ==
    [files |-> files, length |-> length, name |-> Some(TargetName),
     piece_length |-> piece_length, pieces |-> pieces, private |-> private]

TrInfo_newMutBoth(d, is_file, piece_length, private) ==
    LET walked == WalkDir(d)
        tr_files == IF is_file THEN <<TrFile(Len(d[<<>>]), <<>>)>>
                    ELSE [k \in 1..Len(walked) |->
                             TrFile(Len(d[walked[k]]), walked[k])]
        pieces == hash_tr_files(d, tr_files, piece_length)
    IN  IF ~pieces.ok THEN pieces
        ELSE Ok(TrInfo(Some(tr_files),
                       IF is_file THEN Some(Len(d[<<>>])) ELSE None,
                       piece_length, pieces.v, private))

\* TrInfo::new for a target that exists and is a file or a directory
TrInfo_new(d, is_file, piece_length, private) ==
    LET walked == WalkDir(d)
        tr_files == IF is_file THEN <<TrFile(Len(d[<<>>]), <<>>)>>
                    ELSE [k \in 1..Len(walked) |->
                             TrFile(Len(d[walked[k]]), walked[k])]
        pieces == hash_tr_files(d, tr_files, piece_length)
    IN  IF ~pieces.ok THEN pieces
        ELSE Ok(TrInfo(IF is_file THEN None ELSE Some(tr_files),
                       IF is_file THEN Some(Len(d[<<>>])) ELSE None,
                       piece_length, pieces.v, private))

\* the file list TrInfo::verify rebuilds from the InfoBlock
InfoFiles(self) ==
    IF IsSome(self.files) THEN Unwrap(self.files)
    ELSE <<TrFile(Unwrap(self.length), <<>>)>>

\* TrInfo::verify up to the counts it prints: the FailedInfo, or an error
TrInfo_verify(self, d) ==
    IF ~IsSome(self.files) /\ ~IsSome(self.length) THEN Err("MissingField")
    ELSE
      LET tr_files == InfoFiles(self)
          piece_slices == split_hash_pieces(self.pieces)
          failed_info == verify_tr_files(piece_slices, tr_files, d,
                                         self.piece_length)
      IN  IF ~failed_info.ok THEN failed_info
          ELSE IF Len(piece_slices) < Cardinality(failed_info.v.pieces)
                  \/ Len(tr_files) < Cardinality(failed_info.v.files)
          THEN Err("panic: subtract with overflow")
          ELSE failed_info

-----------------------------------------------------------------------------
(* Create, change the target, verify                                       *)

\* the content of the k-th file: bytes "x" and "y" in turn
Content(k, len) == [j \in 1..len |-> IF (k + j) % 2 = 0 THEN "x" ELSE "y"]

Flip(b) == IF b = "x" THEN "y" ELSE "x"

NoChange == [op |-> "none", file_index |-> 0, offset |-> 0]

\* no Torrent is assembled, written or read
IdleC ==
    /\ torrent = None
    /\ tfile = None
    /\ wr = None
    /\ wr_call = None
    /\ rd = None

\* no hash_tr_files call is observed step by step
IdleH ==
    /\ walk = None
    /\ hp_args = None
    /\ todo = {}
    /\ running = {}
    /\ slots = <<>>
    /\ finished = <<>>
    /\ hp_result = None

InitV ==
    /\ IdleH
    /\ IdleC
    /\ \/ /\ target_is_file = TRUE
          /\ \E len \in 0..MaxLen : disk = (<<>> :> Content(0, len))
       \/ /\ target_is_file = FALSE
          /\ \E n \in 0..MaxFiles : \E lens \in [1..n -> 0..MaxLen] :
                disk = [p \in {FilePath(k) : k \in 1..n} |->
                          LET k == CHOOSE k \in 1..n : FilePath(k) = p
                          IN Content(k, lens[k])]
    /\ info = None
    /\ piece_file_info = <<>>
    /\ report = None
    /\ pc = "init"
    /\ change = NoChange

\* TrInfo::new(target_path, piece_length, ..)
Create(piece_length) ==
    /\ pc = "init"
    /\ LET r == TrInfo_new(disk, target_is_file, piece_length, FALSE)
       IN /\ r.ok
          /\ info' = Some(r.v)
          /\ piece_file_info' = calc_piece_file_info(InfoFiles(r.v), piece_length)
    /\ pc' = "created"
    /\ UNCHANGED <<disk, target_is_file, report, change>>

\* the file of the InfoBlock's list (0-based) that lives at path p
FileIndexOf(p) ==
    CHOOSE i \in 0..(Len(InfoFiles(Unwrap(info))) - 1) :
        InfoFiles(Unwrap(info))[i + 1].path = p

\* the environment removes one file of the target
DeleteFile(p) ==
    /\ pc = "created"
    /\ p \in DOMAIN disk
    /\ disk' = [q \in DOMAIN disk \ {p} |-> disk[q]]
    /\ change' = [op |-> "delete", file_index |-> FileIndexOf(p), offset |-> 0]
    /\ pc' = "changed"
    /\ UNCHANGED <<target_is_file, info, piece_file_info, report>>

\* the environment cuts one file of the target down to new_len bytes
TruncateFile(p, new_len) ==
    /\ pc = "created"
    /\ p \in DOMAIN disk
    /\ new_len < Len(disk[p])
    /\ disk' = [disk EXCEPT ![p] = SubSeq(@, 1, new_len)]
    /\ change' = [op |-> "truncate", file_index |-> FileIndexOf(p),
                  offset |-> new_len]
    /\ pc' = "changed"
    /\ UNCHANGED <<target_is_file, info, piece_file_info, report>>

\* the environment changes the byte at offset off of one file
FlipByte(p, off) ==
    /\ pc = "created"
    /\ p \in DOMAIN disk
    /\ off < Len(disk[p])
    /\ disk' = [disk EXCEPT ![p][off + 1] = Flip(@)]
    /\ change' = [op |-> "flip", file_index |-> FileIndexOf(p), offset |-> off]
    /\ pc' = "changed"
    /\ UNCHANGED <<target_is_file, info, piece_file_info, report>>

\* TrInfo::verify(target_path, ..)
Verify ==
    /\ pc \in {"created", "changed"}
    /\ report' = Some(TrInfo_verify(Unwrap(info), disk))
    /\ pc' = "verified"
    /\ UNCHANGED <<disk, target_is_file, info, piece_file_info, change>>

NextV ==
    /\ \/ \E piece_length \in 1..MaxPiece : Create(piece_length)
       \/ \E p \in DOMAIN disk : DeleteFile(p)
       \/ \E p \in DOMAIN disk : \E new_len \in 0..MaxLen : TruncateFile(p, new_len)
       \/ \E p \in DOMAIN disk : \E off \in 0..MaxLen : FlipByte(p, off)
       \/ Verify
    /\ UNCHANGED <<varsH, varsC, walk>>

Spec == InitV /\ [][NextV]_vars

-----------------------------------------------------------------------------
(* hash_tr_files step by step: the pool of hash_piece_file               *)
(* (specification SpecHash).  The workers of the pool are interchangeable: *)
(* a worker keeps nothing from one piece to the next but its buffer, of    *)
(* which only the bytes just read are hashed.                              *)

\* the file list TrInfo::new passes to hash_tr_files
WalkedFiles(d, is_file) ==
    IF is_file THEN <<TrFile(Len(d[<<>>]), <<>>)>>
    ELSE [k \in 1..Len(WalkDir(d)) |->
             TrFile(Len(d[WalkDir(d)[k]]), WalkDir(d)[k])]

\* ThreadPoolBuilder::new().num_threads(n_jobs): 0 asks for the default
PoolSize(n) == IF n = 0 THEN NumCpus ELSE n

InitH ==
    /\ IdleH
    /\ IdleC
    /\ \/ /\ target_is_file = TRUE
          /\ \E len \in 0..MaxLen : disk = (<<>> :> Content(0, len))
       \/ /\ target_is_file = FALSE
          /\ \E n \in 0..MaxFiles : \E lens \in [1..n -> 0..MaxLen] :
                disk = [p \in {FilePath(k) : k \in 1..n} |->
                          LET k == CHOOSE k \in 1..n : FilePath(k) = p
                          IN Content(k, lens[k])]
    /\ SumLengths(WalkedFiles(disk, target_is_file)) <= MaxHashTotal
    /\ info = None
    /\ piece_file_info = <<>>
    /\ report = None
    /\ pc = "init"
    /\ change = NoChange

\* hash_tr_files up to pool.install: the plan is made, no piece is taken
HashStart(piece_length, n_jobs) ==
    /\ hp_args = None
    /\ LET tr_files == WalkedFiles(disk, target_is_file)
           pfi == calc_piece_file_info(tr_files, piece_length)
       IN /\ hp_args' = Some([tr_files |-> tr_files,
                               piece_length |-> piece_length,
                               n_jobs |-> n_jobs])
          /\ piece_file_info' = pfi
          /\ todo' = 0..(Len(pfi) - 1)
          /\ slots' = [i \in 1..Len(pfi) |-> None]
    /\ running' = {}
    /\ finished' = <<>>
    /\ UNCHANGED <<disk, target_is_file, info, report, pc, change, hp_result>>
    /\ UNCHANGED varsC

\* a free worker of the pool takes piece i
TakePiece(i) ==
    /\ IsSome(hp_args) /\ hp_result = None
    /\ i \in todo
    /\ Cardinality(running) < PoolSize(Unwrap(hp_args).n_jobs)
    /\ todo' = todo \ {i}
    /\ running' = running \cup {i}
    /\ UNCHANGED <<varsV, varsC, hp_args, slots, finished, hp_result>>

\* the worker holding piece i ends the map closure
FinishPiece(i) ==
    /\ i \in running
    /\ running' = running \ {i}
    /\ slots' = [slots EXCEPT ![i + 1] =
                    Some(HashOnePiece(disk, Unwrap(hp_args).tr_files,
                                      piece_file_info[i + 1]))]
    /\ finished' = Append(finished, i)
    /\ UNCHANGED <<varsV, varsC, hp_args, todo, hp_result>>

CollectedMutCompletionOrder(results, done) ==
    [j \in 1..Len(done) |-> results[done[j] + 1]]

\* .collect(): the closures' results in the order of the plan
Collected(results, done) == [j \in 1..Len(results) |-> results[j]]

\* pool join, collect, and the concatenation of hash_tr_files
HashCollect ==
    /\ IsSome(hp_args) /\ hp_result = None
    /\ todo = {} /\ running = {}
    /\ LET results == Collected([j \in 1..Len(slots) |-> Unwrap(slots[j])],
                                finished)
       IN hp_result' =
             Some(IF \A j \in 1..Len(results) : results[j].ok
                  THEN Ok(Flatten([j \in 1..Len(results) |-> results[j].v]))
                  ELSE Err(TrError_IO("NotFound")))
    /\ UNCHANGED <<varsV, varsC, hp_args, todo, running, slots, finished>>

NextH ==
    /\ \/ \E piece_length \in 1..MaxPiece : \E n_jobs \in 0..MaxJobs :
             HashStart(piece_length, n_jobs)
       \/ \E i \in todo : TakePiece(i)
       \/ \E i \in running : FinishPiece(i)
       \/ HashCollect
    /\ UNCHANGED walk

SpecHash == InitH /\ [][NextH]_vars

\* the environment removes a file of the target while it is being hashed
VanishFile(p) ==
    /\ IsSome(hp_args) /\ hp_result = None
    /\ p \in DOMAIN disk
    /\ disk' = [q \in DOMAIN disk \ {p} |-> disk[q]]
    /\ UNCHANGED <<target_is_file, info, piece_file_info, report, pc, change>>
    /\ UNCHANGED <<varsH, varsC, walk>>

NextHIo ==
    \/ NextH
    \/ \E p \in DOMAIN disk : VanishFile(p)

\* hash_tr_files on a target that loses files meanwhile
SpecHashIo == InitH /\ [][NextHIo]_vars

-----------------------------------------------------------------------------
(* Bencode encoder (src/src/torrent.rs) *)

\* the keys the encoder writes and the decoder looks up
K_announce == <<"a", "n", "n", "o", "u", "n", "c", "e">>
K_announce_list == <<"a", "n", "n", "o", "u", "n", "c", "e", "-", "l", "i", "s", "t">>
K_comment == <<"c", "o", "m", "m", "e", "n", "t">>
K_created_by == <<"c", "r", "e", "a", "t", "e", "d", " ", "b", "y">>
K_creation_date == <<"c", "r", "e", "a", "t", "i", "o", "n", " ", "d", "a", "t", "e">>
K_encoding == <<"e", "n", "c", "o", "d", "i", "n", "g">>
K_hash == <<"h", "a", "s", "h">>
K_info == <<"i", "n", "f", "o">>
K_files == <<"f", "i", "l", "e", "s">>
K_length == <<"l", "e", "n", "g", "t", "h">>
K_name == <<"n", "a", "m", "e">>
K_piece_length == <<"p", "i", "e", "c", "e", " ", "l", "e", "n", "g", "t", "h">>
K_pieces == <<"p", "i", "e", "c", "e", "s">>
K_private == <<"p", "r", "i", "v", "a", "t", "e">>
K_path == <<"p", "a", "t", "h">>

RECURSIVE NatToString(_)
\* usize::to_string: decimal digits, most significant first
NatToString(n) ==
    IF n < 10 THEN <<Digits[n + 1]>>
    ELSE NatToString(n \div 10) \o <<Digits[(n % 10) + 1]>>

\* i64::to_string
IntToString(i) == IF i < 0 THEN <<"-">> \o NatToString(-i) ELSE NatToString(i)

bencode_bytes(bytes) == NatToString(Len(bytes)) \o <<":">> \o bytes

bencode_string(str) == NatToString(Len(str)) \o <<":">> \o str

bencode_uint(i) == <<"i">> \o NatToString(i) \o <<"e">>

bencode_int(i) == <<"i">> \o IntToString(i) \o <<"e">>

bencode_string_list(list) ==
    <<"l">> \o Flatten([k \in 1..Len(list) |-> bencode_string(list[k])]) \o <<"e">>

TrFile_bencode(self) ==
    <<"d">>
    \o bencode_string(K_length) \o bencode_uint(self.length)
    \o bencode_string(K_path) \o bencode_string_list(self.path)
    \o <<"e">>

bencode_file_list(list) ==
    <<"l">> \o Flatten([k \in 1..Len(list) |-> TrFile_bencode(list[k])]) \o <<"e">>

\* one optional entry of a dictionary: nothing when cond is false
Entry(cond, key, value) == IF cond THEN bencode_string(key) \o value ELSE <<>>

TrInfo_bencode(self) ==
    <<"d">>
    \o Entry(IsSome(self.files), K_files,
             IF IsSome(self.files) THEN bencode_file_list(Unwrap(self.files))
             ELSE <<>>)
    \o Entry(IsSome(self.length), K_length,
             IF IsSome(self.length) THEN bencode_uint(Unwrap(self.length))
             ELSE <<>>)
    \o Entry(IsSome(self.name), K_name,
             IF IsSome(self.name) THEN bencode_string(Unwrap(self.name))
             ELSE <<>>)
    \o bencode_string(K_piece_length) \o bencode_uint(self.piece_length)
    \o Entry(self.pieces # <<>>, K_pieces, bencode_bytes(self.pieces))
    \o Entry(self.private, K_private, bencode_uint(1))
    \o <<"e">>

\* hex::encode: two bytes of text for every byte
HexEncode(bytes) ==
    Flatten([k \in 1..Len(bytes) |-> <<"^" \o bytes[k], "_" \o bytes[k]>>])

\* TrInfo::hash: hex SHA-1 of the encoding of the InfoBlock
TrInfo_hash(self) == HexEncode(Sha1(TrInfo_bencode(self)))

bencode_announce_list(list) ==
    <<"l">>
    \o Flatten([k \in 1..Len(list) |-> bencode_string_list(list[k])])
    \o <<"e">>

Torrent_bencode(self) ==
    <<"d">>
    \o Entry(IsSome(self.announce), K_announce,
             IF IsSome(self.announce) THEN bencode_string(Unwrap(self.announce))
             ELSE <<>>)
    \o Entry(IsSome(self.announce_list), K_announce_list,
             IF IsSome(self.announce_list)
             THEN bencode_announce_list(Unwrap(self.announce_list)) ELSE <<>>)
    \o Entry(IsSome(self.comment), K_comment,
             IF IsSome(self.comment) THEN bencode_string(Unwrap(self.comment))
             ELSE <<>>)
    \o Entry(IsSome(self.created_by), K_created_by,
             IF IsSome(self.created_by)
             THEN bencode_string(Unwrap(self.created_by)) ELSE <<>>)
    \o Entry(IsSome(self.creation_date), K_creation_date,
             IF IsSome(self.creation_date)
             THEN bencode_int(Unwrap(self.creation_date)) ELSE <<>>)
    \o Entry(IsSome(self.encoding), K_encoding,
             IF IsSome(self.encoding) THEN bencode_string(Unwrap(self.encoding))
             ELSE <<>>)
    \o Entry(IsSome(self.info), K_info,
             IF IsSome(self.info) THEN TrInfo_bencode(Unwrap(self.info))
             ELSE <<>>)
    \o Entry(IsSome(self.hash), K_hash,
             IF IsSome(self.hash) THEN bencode_string(Unwrap(self.hash))
             ELSE <<>>)
    \o <<"e">>

-----------------------------------------------------------------------------
(* Bencode decoder: parse_bencode inside Torrent::read_torrent.            *)
(* A parsed value is [tag, v]; a Dict also records, for the properties,    *)
(* its keys in input order (keys) and the byte range of each value (span); *)
(* an Int or UInt also records the text between 'i' and 'e' (text).        *)
(* A parse result is [ok |-> TRUE, v, pos] or Err(kind).                   *)

BInt(n) == [tag |-> "Int", v |-> n]          \* Bencode::Int(usize)
BUInt(i) == [tag |-> "UInt", v |-> i]        \* Bencode::UInt(i64)
BBytes(b) == [tag |-> "Bytes", v |-> b]
BList(items) == [tag |-> "List", v |-> items]
BDict(map, keys, span) == [tag |-> "Dict", v |-> map, keys |-> keys, span |-> span]

Parsed(v, pos) == [ok |-> TRUE, v |-> v, pos |-> pos]

\* data.get(pos)
ByteAt(data, pos) == IF pos < Len(data) THEN Some(data[pos + 1]) ELSE None

IsDigit(b) == \E n \in 0..9 : Digits[n + 1] = b

DigitVal(b) == CHOOSE n \in 0..9 : Digits[n + 1] = b

\* a byte of a SHA-1 digest: taken not to be valid UTF-8
IsRawByte(b) == Len(b) > 1 /\ Head(b) = "#"

\* std::str::from_utf8 / String::from_utf8 succeeds
IsUtf8(bytes) == \A k \in 1..Len(bytes) : ~IsRawByte(bytes[k])

AllDigits(str) == str # <<>> /\ \A k \in 1..Len(str) : IsDigit(str[k])

RECURSIVE DigitsValue(_)
DigitsValue(str) ==
    IF str = <<>> THEN 0
    ELSE DigitsValue(SubSeq(str, 1, Len(str) - 1)) * 10 + DigitVal(str[Len(str)])

\* usize::MAX of a 64-bit target, as decimal digits
USIZE_MAX == <<"1", "8", "4", "4", "6", "7", "4", "4", "0", "7", "3", "7", "0", "9", "5", "5", "1", "6", "1", "5">>

RECURSIVE StripZeros(_)
\* the digits without leading zeros
StripZeros(digits) ==
    IF Len(digits) > 1 /\ digits[1] = "0" THEN StripZeros(Tail(digits)) ELSE digits

RECURSIVE DigitsGreater(_, _)
\* a > b for two numbers written without leading zeros
DigitsGreater(a, b) ==
    IF Len(a) # Len(b) THEN Len(a) > Len(b)
    ELSE IF a = <<>> THEN FALSE
    ELSE IF a[1] # b[1] THEN DigitVal(a[1]) > DigitVal(b[1])
    ELSE DigitsGreater(Tail(a), Tail(b))

\* a usize too large for the model's integers, kept as its digits
BigUsize(digits) == [big |-> digits]

\* the digits of a usize literal: no sign, no leading zeros
UsizeDigits(str) ==
    StripZeros(IF str # <<>> /\ str[1] = "+" THEN Tail(str) ELSE str)

\* the literal is above the integers of the model
IsBigLiteral(str) == Len(UsizeDigits(str)) > 9

\* usize::MAX - pos, as digits, for the cursor positions of the model:
\* the subtraction is done on the last nine digits
UsizeMaxMinus(pos) ==
    SubSeq(USIZE_MAX, 1, 11)
    \o NatToString(DigitsValue(SubSeq(USIZE_MAX, 12, 20)) - pos)

\* pos + len is above usize::MAX, for len as parsed from len_str
AddOverflows(pos, len_str) ==
    IsBigLiteral(len_str) /\ DigitsGreater(UsizeDigits(len_str), UsizeMaxMinus(pos))

\* str::parse::<usize>(): an optional '+', then one or more digits; a value
\* above usize::MAX is IntErrorKind::PosOverflow
ParseUsize(str) ==
    LET body == IF str # <<>> /\ str[1] = "+" THEN Tail(str) ELSE str
        digits == UsizeDigits(str)
    IN IF ~AllDigits(body) THEN None
       ELSE IF DigitsGreater(digits, USIZE_MAX) THEN None
       ELSE IF IsBigLiteral(str) THEN Some(BigUsize(digits))
       ELSE Some(DigitsValue(body))

\* str::parse::<i64>(): an optional '+' or '-', then one or more digits
ParseI64(str) ==
    LET signed == str # <<>> /\ str[1] \in {"+", "-"}
        body == IF signed THEN Tail(str) ELSE str
    IN IF ~AllDigits(body) THEN None
       ELSE IF signed /\ str[1] = "-" THEN Some(0 - DigitsValue(body))
       ELSE Some(DigitsValue(body))

RECURSIVE ScanTo(_, _, _)
\* while *pos < data.len() && data[*pos] != stop { *pos += 1 }
ScanTo(data, pos, stop) ==
    IF pos < Len(data) /\ data[pos + 1] # stop
    THEN ScanTo(data, pos + 1, stop) ELSE pos

\* an Int or UInt with, for the properties, the text it was parsed from
IntText(value, num_str) == ("text" :> num_str) @@ value

\* Some(b'i') => ..
ParseIntToken(data, pos) ==
    LET start == pos + 1
        stop == ScanTo(data, start, "e")
        num_str == SubSeq(data, start + 1, stop)
    IN IF stop >= Len(data) THEN Err("ParseError: unterminated integer")
       ELSE IF ~IsUtf8(num_str) THEN Err("ParseError: invalid utf8 in int")
       ELSE IF num_str # <<>> /\ num_str[1] = "-"
       THEN IF IsSome(ParseI64(num_str))
            THEN Parsed(IntText(BUInt(Unwrap(ParseI64(num_str))), num_str), stop + 1)
            ELSE Err("ParseError: invalid int")
       ELSE IF IsSome(ParseUsize(num_str))
            THEN Parsed(IntText(BInt(Unwrap(ParseUsize(num_str))), num_str), stop + 1)
            ELSE Err("ParseError: invalid int")

\* let end = *pos + len with a sum above usize::MAX: with overflow checks
\* the addition panics; without them end wraps to a value below *pos, passes
\* end > data.len() and &data[*pos..end] panics.  Either way the thread
\* panics and no Result is returned.
PanicEndOverflow == "panic: *pos + len overflows usize"

\* Some(b'0'..=b'9') => ..
ParseBytesToken(data, pos) ==
    LET colon == ScanTo(data, pos, ":")
        len_str == SubSeq(data, pos + 1, colon)
        len == ParseUsize(len_str)
        from == colon + 1
    IN IF colon >= Len(data) THEN Err("InvalidTorrent: truncated string length")
       ELSE IF ~IsUtf8(len_str) THEN Err("ParseError: invalid utf8 length")
       ELSE IF ~IsSome(len) THEN Err("ParseError: bad string length")
       ELSE IF AddOverflows(from, len_str) THEN Err(PanicEndOverflow)
       ELSE IF IsBigLiteral(len_str) THEN Err("InvalidTorrent: truncated string")
       ELSE IF from + Unwrap(len) > Len(data)
       THEN Err("InvalidTorrent: truncated string")
       ELSE Parsed(BBytes(SubSeq(data, from + 1, from + Unwrap(len))),
                   from + Unwrap(len))

RECURSIVE parse_bencode(_, _)
RECURSIVE ParseListItems(_, _, _)
RECURSIVE ParseDictEntries(_, _, _, _, _)

\* Some(b'l') => while data.get(*pos) != Some(&b'e') { items.push(..?) }
ParseListItems(data, pos, items) ==
    IF ByteAt(data, pos) = Some("e") THEN Parsed(BList(items), pos + 1)
    ELSE LET item == parse_bencode(data, pos)
         IN IF ~item.ok THEN item
            ELSE ParseListItems(data, item.pos, Append(items, item.v))

\* Some(b'd') => while data.get(*pos) != Some(&b'e') { key; val; insert }
ParseDictEntries(data, pos, map, keys, span) ==
    IF ByteAt(data, pos) = Some("e") THEN Parsed(BDict(map, keys, span), pos + 1)
    ELSE
      LET key == parse_bencode(data, pos)
      IN IF ~key.ok THEN key
         ELSE IF key.v.tag # "Bytes"
         THEN Err("InvalidTorrent: dict key not string")
         ELSE IF ~IsUtf8(key.v.v) THEN Err("InvalidTorrent: invalid utf8 key")
         ELSE
           LET val == parse_bencode(data, key.pos)
           IN IF ~val.ok THEN val
              ELSE ParseDictEntries(data, val.pos,
                      (key.v.v :> val.v) @@ map,
                      Append(keys, key.v.v),
                      (key.v.v :> <<key.pos, val.pos>>) @@ span)

parse_bencode(data, pos) ==
    IF pos >= Len(data) THEN Err("ParseError: unexpected EOF")
    ELSE IF data[pos + 1] = "i" THEN ParseIntToken(data, pos)
    ELSE IF data[pos + 1] = "l" THEN ParseListItems(data, pos + 1, <<>>)
    ELSE IF data[pos + 1] = "d"
         THEN ParseDictEntries(data, pos + 1, <<>>, <<>>, <<>>)
    ELSE IF IsDigit(data[pos + 1]) THEN ParseBytesToken(data, pos)
    ELSE Err("ParseError: unknown token")

\* map.get(key)
Get(map, key) == IF key \in DOMAIN map THEN Some(map[key]) ELSE None

\* the match arm Some(Bencode::<tag>(..))
HasTag(o, tag) == IsSome(o) /\ Unwrap(o).tag = tag

\* match .. { Some(Bencode::Bytes(b)) => Some(String::from_utf8(b.to_vec())?),
\*            _ => None }
StrField(o) ==
    IF ~HasTag(o, "Bytes") THEN Ok(None)
    ELSE IF IsUtf8(Unwrap(o).v) THEN Ok(Some(Unwrap(o).v))
    ELSE Err("EncodingError")

\* the first error of a sequence of results, if any
FirstErr(results) ==
    IF \A k \in 1..Len(results) : results[k].ok THEN None
    ELSE Some(results[CHOOSE k \in 1..Len(results) :
                        /\ ~results[k].ok
                        /\ \A j \in 1..(k - 1) : results[j].ok])

RECURSIVE ReadPathParts(_, _, _)
\* for part in parts { if let Bencode::Bytes(b) = part { ps.push(..?) } }
ReadPathParts(parts, k, ps) ==
    IF k > Len(parts) THEN Ok(ps)
    ELSE IF parts[k].tag # "Bytes" THEN ReadPathParts(parts, k + 1, ps)
    ELSE IF ~IsUtf8(parts[k].v) THEN Err("EncodingError")
    ELSE ReadPathParts(parts, k + 1, Append(ps, parts[k].v))

RECURSIVE ReadFiles(_, _, _)
\* for file in files { if let Bencode::Dict(m) = file { .. out.push(..) } }
ReadFiles(files, k, out) ==
    IF k > Len(files) THEN Ok(out)
    ELSE IF files[k].tag # "Dict" THEN ReadFiles(files, k + 1, out)
    ELSE
      LET m == files[k].v
          length == Get(m, K_length)
          path == Get(m, K_path)
          ps == ReadPathParts(Unwrap(path).v, 1, <<>>)
      IN IF ~HasTag(length, "Int") THEN Err("InvalidTorrent: file length invalid")
         ELSE IF ~HasTag(path, "List") THEN Err("InvalidTorrent: file path invalid")
         ELSE IF ~ps.ok THEN ps
         ELSE ReadFiles(files, k + 1, Append(out, TrFile(Unwrap(length).v, ps.v)))

\* let tr_files = ..; let tr_info = TrInfo { .. };
ReadInfo(info_dict) ==
    LET files == Get(info_dict, K_files)
        tr_files == IF HasTag(files, "List")
                    THEN ReadFiles(Unwrap(files).v, 1, <<>>) ELSE Ok(<<>>)
        length == Get(info_dict, K_length)
        name == StrField(Get(info_dict, K_name))
        piece_length == Get(info_dict, K_piece_length)
        pieces == Get(info_dict, K_pieces)
        private == Get(info_dict, K_private)
    IN IF ~tr_files.ok THEN tr_files
       ELSE IF ~name.ok THEN name
       ELSE IF ~HasTag(piece_length, "Int")
       THEN Err("InvalidTorrent: piece length missing")
       ELSE IF ~HasTag(pieces, "Bytes") THEN Err("InvalidTorrent: pieces missing")
       ELSE Ok([files |-> IF HasTag(files, "List") THEN Some(tr_files.v) ELSE None,
                length |-> IF HasTag(length, "Int") THEN Some(Unwrap(length).v)
                           ELSE None,
                name |-> name.v,
                piece_length |-> Unwrap(piece_length).v,
                pieces |-> Unwrap(pieces).v,
                private |-> IF HasTag(private, "Int") THEN Unwrap(private).v # 0
                            ELSE FALSE])

RECURSIVE ReadTier(_, _, _)
\* for url in urls { match url { Bencode::Bytes(b) => tier_list.push(..?), .. } }
ReadTier(urls, k, tier_list) ==
    IF k > Len(urls) THEN Ok(tier_list)
    ELSE IF urls[k].tag # "Bytes"
    THEN Err("InvalidTorrent: Announce URL is not a string")
    ELSE IF ~IsUtf8(urls[k].v) THEN Err("EncodingError")
    ELSE ReadTier(urls, k + 1, Append(tier_list, urls[k].v))

RECURSIVE ReadTiers(_, _, _)
\* for tier in lists { match tier { Bencode::List(urls) => .., _ => Err } }
ReadTiers(lists, k, alist) ==
    IF k > Len(lists) THEN Ok(Some(alist))
    ELSE IF lists[k].tag # "List"
    THEN Err("InvalidTorrent: Announce tier is not a list")
    ELSE LET tier_list == ReadTier(lists[k].v, 1, <<>>)
         IN IF ~tier_list.ok THEN tier_list
            ELSE ReadTiers(lists, k + 1, Append(alist, tier_list.v))

\* creation_date: UInt(i) => Some(i), Int(i) => Some(i as i64), _ => None
ReadDate(o) ==
    IF HasTag(o, "UInt") \/ HasTag(o, "Int") THEN Some(Unwrap(o).v) ELSE None

\* Ok(Torrent { .. })
ReadOuter(tr_dict, tr_info) ==
    LET announce == StrField(Get(tr_dict, K_announce))
        lists == Get(tr_dict, K_announce_list)
        announce_list == IF HasTag(lists, "List")
                         THEN ReadTiers(Unwrap(lists).v, 1, <<>>) ELSE Ok(None)
        comment == StrField(Get(tr_dict, K_comment))
        created_by == StrField(Get(tr_dict, K_created_by))
        encoding == StrField(Get(tr_dict, K_encoding))
        hash == StrField(Get(tr_dict, K_hash))
        failed == FirstErr(<<announce, announce_list, comment, created_by,
                             encoding, hash>>)
    IN IF IsSome(failed) THEN Unwrap(failed)
       ELSE Ok([announce |-> announce.v,
                announce_list |-> announce_list.v,
                comment |-> comment.v,
                created_by |-> created_by.v,
                creation_date |-> ReadDate(Get(tr_dict, K_creation_date)),
                encoding |-> encoding.v,
                hash |-> hash.v,
                info |-> Some(tr_info)])

\* Torrent::read_torrent on the bytes read(&tr_path) returned
read_torrent(bcode) ==
    LET root == parse_bencode(bcode, 0)
    IN IF ~root.ok THEN root
       ELSE IF root.v.tag # "Dict"
       THEN Err("InvalidTorrent: torrent root is not a dictionary")
       ELSE
         LET tr_dict == root.v.v
             info_dict == Get(tr_dict, K_info)
             tr_info == ReadInfo(Unwrap(info_dict).v)
         IN IF ~HasTag(info_dict, "Dict") THEN Err("InvalidTorrent: missing info dict")
            ELSE IF ~tr_info.ok THEN tr_info
            ELSE ReadOuter(tr_dict, tr_info.v)

-----------------------------------------------------------------------------
(* Torrent assembler (src/src/torrent.rs): new, create_torrent,            *)
(* write_to_file, read_torrent (specification SpecCodec)                   *)

HASH_BUF_SIZE == 262144

RECURSIVE FeedBuf(_, _, _, _)
\* while buf_pos < n { .. }: st is (piece_pos, pieces, hasher); the hasher
\* is the bytes fed to it since its last reset
FeedBuf(st, buf, buf_pos, chunk_size) ==
    IF buf_pos >= Len(buf) THEN st
    ELSE
      LET space == chunk_size - st.piece_pos
          to_copy == Min(space, Len(buf) - buf_pos)
          hasher == st.hasher \o SubSeq(buf, buf_pos + 1, buf_pos + to_copy)
          piece_pos == st.piece_pos + to_copy
      IN FeedBuf(IF piece_pos = chunk_size
                 THEN [piece_pos |-> 0, pieces |-> st.pieces \o Sha1(hasher),
                       hasher |-> <<>>]
                 ELSE [piece_pos |-> piece_pos, pieces |-> st.pieces,
                       hasher |-> hasher],
                 buf, buf_pos + to_copy, chunk_size)

RECURSIVE ReadLoop(_, _, _, _)
\* loop { let n = f.read(&mut buf)?; if n == 0 { break; } .. }
ReadLoop(st, content, file_pos, chunk_size) ==
    LET n == Min(HASH_BUF_SIZE, Len(content) - file_pos)
    IN IF n = 0 THEN st
       ELSE ReadLoop(FeedBuf(st, SubSeq(content, file_pos + 1, file_pos + n),
                             0, chunk_size),
                     content, file_pos + n, chunk_size)

RECURSIVE HashFiles(_, _, _, _, _)
\* for tr_file in tr_files { let mut f = File::open(&f_path)?; .. }
HashFiles(st, d, tr_files, k, chunk_size) ==
    IF k > Len(tr_files) THEN Ok(st)
    ELSE IF JoinFullPath(tr_files[k]) \notin DOMAIN d THEN Err("Io")
    ELSE HashFiles(ReadLoop(st, d[JoinFullPath(tr_files[k])], 0, chunk_size),
                   d, tr_files, k + 1, chunk_size)

\* as hash_pieces, without the if piece_pos > 0 block after the loop
hash_piecesMutNoTail(d, tr_files, chunk_size) ==
    LET r == HashFiles([piece_pos |-> 0, pieces |-> <<>>, hasher |-> <<>>],
                       d, tr_files, 1, chunk_size)
    IN IF ~r.ok THEN r ELSE Ok(r.v.pieces)

\* hash_pieces(base_path, tr_files, chunk_size), chunk_size > 0
hash_pieces(d, tr_files, chunk_size) ==
    LET r == HashFiles([piece_pos |-> 0, pieces |-> <<>>, hasher |-> <<>>],
                       d, tr_files, 1, chunk_size)
    IN IF ~r.ok THEN r
       ELSE Ok(IF r.v.piece_pos > 0 THEN r.v.pieces \o Sha1(r.v.hasher)
               ELSE r.v.pieces)

RECURSIVE Pow2(_)
\* 1 << n
Pow2(n) == IF n = 0 THEN 1 ELSE 2 * Pow2(n - 1)

\* TrInfo::new of torrent.rs for a target that is a file or a directory;
\* metadata(base_path)? fails when nothing is at the path
Torrent_TrInfo_new(d, is_file, piece_size, private) ==
    LET tr_files == WalkedFiles(d, is_file)
        chunk_size == Pow2(piece_size)
        pieces == hash_pieces(d, tr_files, chunk_size)
    IN  IF is_file /\ <<>> \notin DOMAIN d THEN Err("Io")
        ELSE IF ~pieces.ok THEN pieces
        ELSE Ok(TrInfo(IF ~is_file THEN Some(tr_files) ELSE None,
                       IF is_file THEN Some(Len(d[<<>>])) ELSE None,
                       chunk_size, pieces.v, private))

\* Torrent::new
Torrent_new(announce, announce_list, comment, created_by, creation_date, encoding) ==
    [announce |-> announce, announce_list |-> announce_list,
     comment |-> comment, created_by |-> created_by,
     creation_date |-> creation_date, encoding |-> encoding,
     hash |-> None, info |-> None]

\* nothing is at target_path
NoTarget == [p \in {} |-> <<>>]

\* the target of SpecCodec (a file, a path with nothing at it, or a
\* directory) and an optional file already at torrent_path
InitC ==
    /\ IdleH
    /\ \/ /\ target_is_file = TRUE
          /\ \E len \in 0..MaxCodecLen : disk = (<<>> :> Content(0, len))
       \/ /\ target_is_file = TRUE
          /\ disk = NoTarget
       \/ /\ target_is_file = FALSE
          /\ \E n \in 0..MaxCodecFiles : \E lens \in [1..n -> 0..MaxCodecLen] :
                disk = [p \in {FilePath(k) : k \in 1..n} |->
                          LET k == CHOOSE k \in 1..n : FilePath(k) = p
                          IN Content(k, lens[k])]
    /\ info = None
    /\ piece_file_info = <<>>
    /\ report = None
    /\ pc = "init"
    /\ change = NoChange
    /\ torrent = None
    /\ tfile \in {None, Some(<<"x">>)}
    /\ wr = None
    /\ wr_call = None
    /\ rd = None

\* Torrent::new(..) as main builds it: URLs, comment, creator, date, encoding
TorrentNew(announce, announce_list, meta, creation_date) ==
    /\ pc = "init"
    /\ torrent' = Some(Torrent_new(announce, announce_list,
                                   IF meta THEN Some(<<"n">>) ELSE None,
                                   IF meta THEN Some(<<"c">>) ELSE None,
                                   creation_date,
                                   IF meta THEN Some(<<"U">>) ELSE None))
    /\ pc' = "new"
    /\ UNCHANGED <<disk, target_is_file, info, piece_file_info, report, change>>
    /\ UNCHANGED <<tfile, wr, wr_call, rd>>

\* as create_torrent, with self.hash left as it was
create_torrentMutNoHash(self, d, is_file, piece_size, private) ==
    LET r == Torrent_TrInfo_new(d, is_file, piece_size, private)
    IN IF ~r.ok THEN [self |-> self, result |-> r]
       ELSE [self |-> [self EXCEPT !.info = Some(r.v)], result |-> Ok(<<>>)]

\* Torrent::create_torrent(&mut self, target_path, piece_size, private):
\* self after the call and the Result it returns
create_torrent(self, d, is_file, piece_size, private) ==
    LET r == Torrent_TrInfo_new(d, is_file, piece_size, private)
    IN IF ~r.ok THEN [self |-> self, result |-> r]
       ELSE [self |-> [self EXCEPT !.hash = Some(TrInfo_hash(r.v)),
                                   !.info = Some(r.v)],
             result |-> Ok(<<>>)]

\* main calls create_torrent on a new Torrent and exits when it fails
CreateTorrent(piece_size, private) ==
    /\ pc = "new"
    /\ LET c == create_torrent(Unwrap(torrent), disk, target_is_file,
                               piece_size, private)
       IN /\ torrent' = Some(c.self)
          /\ pc' = IF c.result.ok THEN "created" ELSE "exit"
    /\ UNCHANGED <<disk, target_is_file, info, piece_file_info, report, change>>
    /\ UNCHANGED <<tfile, wr, wr_call, rd>>

RefusesMutIgnoreForce(force, exists) == exists

\* !force && Path::new(&torrent_path).exists()
Refuses(force, exists) == ~force /\ exists

\* Torrent::write_to_file(torrent_path, force).  File::create may fail and
\* leaves the path as it was; once it succeeded the file is empty, and
\* write_all either writes every byte or fails after `written` of them.
WriteToFile(force, fail, written) ==
    /\ pc \in {"new", "created"}
    /\ wr_call' = Some([force |-> force, before |-> tfile])
    /\ LET bcode == Torrent_bencode(Unwrap(torrent))
       IN IF Refuses(force, IsSome(tfile))
          THEN /\ wr' = Some(Err("AlreadyExists"))
               /\ tfile' = tfile
          ELSE IF fail = "create"
          THEN /\ wr' = Some(Err("Io"))
               /\ tfile' = tfile
          ELSE IF fail = "write"
          THEN /\ written < Len(bcode)
               /\ wr' = Some(Err("Io"))
               /\ tfile' = Some(SubSeq(bcode, 1, written))
          ELSE /\ wr' = Some(Ok(<<>>))
               /\ tfile' = Some(bcode)
    /\ pc' = "written"
    /\ UNCHANGED <<disk, target_is_file, info, piece_file_info, report, change>>
    /\ UNCHANGED <<torrent, rd>>

\* the InfoBlock of a one-byte single-file torrent as another tool may
\* write it: its four entries in ascending key order, or in descending order
ForeignInfo(ascending, piece_length) ==
    LET entries == <<bencode_string(K_length) \o bencode_uint(1),
                     bencode_string(K_name) \o bencode_string(TargetName),
                     bencode_string(K_piece_length) \o piece_length,
                     bencode_string(K_pieces) \o bencode_bytes(Sha1(<<"y">>))>>
    IN <<"d">>
       \o Flatten([k \in 1..4 |-> IF ascending THEN entries[k] ELSE entries[5 - k]])
       \o <<"e">>

\* a metainfo file around that InfoBlock, with or without a `hash` entry
Foreign(info_bytes, hash) ==
    <<"d">>
    \o Entry(IsSome(hash), K_hash,
             IF IsSome(hash) THEN bencode_string(Unwrap(hash)) ELSE <<>>)
    \o bencode_string(K_info) \o info_bytes
    \o <<"e">>

\* an InfoBlock as another tool may write it, from the entries it is given
\* and, always, `name`, `piece length` (as the given token) and `pieces`
ForeignInfoWith(files, length, piece_length, pieces) ==
    <<"d">>
    \o Entry(files, K_files, bencode_file_list(<<TrFile(1, <<TargetName>>)>>))
    \o Entry(length, K_length, bencode_uint(1))
    \o bencode_string(K_name) \o bencode_string(TargetName)
    \o bencode_string(K_piece_length) \o piece_length
    \o bencode_string(K_pieces) \o bencode_bytes(pieces)
    \o <<"e">>

\* a metainfo file with a `creation date` written as the given token
ForeignDated(creation_date, info_bytes) ==
    <<"d">>
    \o bencode_string(K_creation_date) \o creation_date
    \o bencode_string(K_info) \o info_bytes
    \o <<"e">>

\* the files the environment may put at torrent_path
ForeignFiles ==
    LET canon == ForeignInfo(TRUE, bencode_uint(1))
        other == ForeignInfo(FALSE, bencode_uint(1))
        padded == ForeignInfo(TRUE, <<"i", "0", "1", "e">>)
        digest == Sha1(<<"y">>)
    IN {Foreign(ForeignInfoWith(TRUE, FALSE, bencode_uint(1), digest), None),
        Foreign(ForeignInfoWith(TRUE, TRUE, bencode_uint(1), digest), None),
        Foreign(ForeignInfoWith(FALSE, FALSE, bencode_uint(1), digest), None),
        Foreign(ForeignInfoWith(FALSE, TRUE, bencode_uint(1), <<"a", "b", "c">>), None),
        Foreign(ForeignInfoWith(FALSE, TRUE, bencode_uint(1), <<>>), None),
        Foreign(ForeignInfoWith(FALSE, TRUE, <<"i", "+", "1", "e">>, digest), None),
        Foreign(ForeignInfoWith(FALSE, TRUE, <<"i", "e">>, digest), None),
        Foreign(ForeignInfoWith(FALSE, TRUE, bencode_uint(0), digest), None),
        Foreign(ForeignInfoWith(FALSE, TRUE, <<"i", "-", "1", "e">>, digest), None),
        ForeignDated(<<"i", "-", "0", "e">>, canon),
        ForeignDated(<<"i", "-", "7", "e">>, canon),
        ForeignDated(<<"i", "0", "e">>, canon),
        ForeignDated(<<"i", "0", "0", "e">>, canon),
        ForeignDated(<<"i", "-", "e">>, canon),
        ForeignDated(<<"i", "1", "x", "e">>, canon),
        Foreign(canon, None),
        Foreign(canon, Some(HexEncode(Sha1(canon)))),
        Foreign(canon, Some(<<"a", "b">>)),
        Foreign(other, None),
        Foreign(other, Some(HexEncode(Sha1(other)))),
        Foreign(padded, None),
        <<"i", "1", "e">>,
        <<"d", "4", ":", "i", "n", "f", "o">>,
        USIZE_MAX \o <<":", "x">>,
        UsizeMaxMinus(21) \o <<":", "x">>,
        SubSeq(USIZE_MAX, 1, 19) \o <<"6", ":", "x">>,
        <<"d", "4", ":", "i", "n", "f", "o">> \o UsizeMaxMinus(7) \o <<":", "x", "e">>}

\* the environment puts a metainfo file at torrent_path
PutInput(bytes) ==
    /\ pc = "init"
    /\ tfile' = Some(bytes)
    /\ pc' = "written"
    /\ UNCHANGED <<disk, target_is_file, info, piece_file_info, report, change>>
    /\ UNCHANGED <<torrent, wr, wr_call, rd>>

\* Torrent::read_torrent(tr_path)
ReadTorrent ==
    /\ pc = "written"
    /\ rd' = Some(IF IsSome(tfile) THEN read_torrent(Unwrap(tfile)) ELSE Err("Io"))
    /\ pc' = "read"
    /\ UNCHANGED <<disk, target_is_file, info, piece_file_info, report, change>>
    /\ UNCHANGED <<torrent, tfile, wr, wr_call>>

NextC ==
    /\ \/ \E announce_list \in {None, Some(<<>>), Some(<< <<"u">>, <<"v", "w">> >>)} :
          \E announce \in IF announce_list = None THEN {None}
                          ELSE {None, Some(<<"u">>)} :
          \E meta \in BOOLEAN :
          \E creation_date \in IF meta THEN {Some(12)} ELSE {None, Some(0 - 1)} :
             TorrentNew(announce, announce_list, meta, creation_date)
       \/ \E piece_size \in 0..MaxPieceShift : \E private \in BOOLEAN :
             CreateTorrent(piece_size, private)
       \/ \E force \in BOOLEAN : \E fail \in {"none", "create", "write"} :
          \E written \in 0..MaxPartial : WriteToFile(force, fail, written)
       \/ \E bytes \in ForeignFiles : PutInput(bytes)
       \/ ReadTorrent
    /\ UNCHANGED <<varsH, walk>>

SpecCodec == InitC /\ [][NextC]_vars

-----------------------------------------------------------------------------
(* Vocabulary of the properties: the byte ranges of files and pieces in    *)
(* the concatenation of the file list, computed without the planner.       *)

\* the offset of file i (0-based) in the concatenation of files
FileStart(files, i) == SumLengths(SubSeq(files, 1, i))

\* file i has a byte in piece k
Overlaps(files, i, k, P) ==
    /\ files[i + 1].length > 0
    /\ FileStart(files, i) < (k + 1) * P
    /\ FileStart(files, i) + files[i + 1].length > k * P

PiecesOfFile(files, i, P) ==
    {k \in 0..(DivCeil(SumLengths(files), P) - 1) : Overlaps(files, i, k, P)}

FilesOfPiece(files, k, P) ==
    {i \in 0..(Len(files) - 1) : Overlaps(files, i, k, P)}

CreatedFiles == InfoFiles(Unwrap(info))
CreatedP == Unwrap(info).piece_length
CreatedTotal == SumLengths(CreatedFiles)
Verified == pc = "verified"
Result == Unwrap(report)
SharesPieces == \E i \in 1..Len(piece_file_info) : Len(piece_file_info[i]) >= 2

-----------------------------------------------------------------------------
(* Properties of the create / verify lifecycle (specification Spec) *)

\* C1: verifying the unmodified target of a freshly created InfoBlock
\* gives a report with no failed piece, no failed file and no known-bad file.
C1_VerifyUnmodifiedIsClean ==
    (Verified /\ change.op = "none") =>
        /\ Result.ok
        /\ Result.v.pieces = {}
        /\ Result.v.files = {}
        /\ Result.v.files_known = {}

C1_Witness ==
    /\ Verified /\ change.op = "none"
    /\ Result.ok
    /\ Len(piece_file_info) >= 2
    /\ SharesPieces

\* C2: the triple lengths of the plan sum to the total of the file lengths,
\* and every piece but possibly the last sums to exactly piece_length.
C2_PlanSums ==
    pc # "init" =>
        /\ SumLengths([i \in 1..Len(piece_file_info) |->
                          [length |-> SumTriples(piece_file_info[i])]])
             = CreatedTotal
        /\ \A i \in 1..(Len(piece_file_info) - 1) :
              SumTriples(piece_file_info[i]) = CreatedP

C2_Witness ==
    /\ pc = "created"
    /\ Len(piece_file_info) >= 3
    /\ SharesPieces
    /\ SumTriples(piece_file_info[Len(piece_file_info)]) < CreatedP

\* C3: the plan has exactly ceil(S / P) pieces (none when S = 0), and its
\* last piece sums to S mod P when that is nonzero and to P otherwise.
C3_PieceCount ==
    pc # "init" =>
        /\ Len(piece_file_info) = DivCeil(CreatedTotal, CreatedP)
        /\ CreatedTotal = 0 => piece_file_info = <<>>
        /\ CreatedTotal > 0 =>
              SumTriples(piece_file_info[Len(piece_file_info)]) =
                 IF CreatedTotal % CreatedP # 0 THEN CreatedTotal % CreatedP
                 ELSE CreatedP

C3_Witness ==
    /\ pc = "created"
    /\ Len(piece_file_info) >= 2
    /\ CreatedTotal % CreatedP # 0
    /\ \E i \in 1..Len(CreatedFiles) : CreatedFiles[i].length = 0

\* C7: after deleting or truncating exactly one file, the known-bad files
\* contain that file and the failed pieces are exactly the pieces that
\* hold bytes of that file, for every file of the list.
C7_OneFileGone ==
    (Verified /\ change.op \in {"delete", "truncate"}) =>
        /\ Result.ok
        /\ change.file_index \in Result.v.files_known
        /\ Result.v.pieces =
              PiecesOfFile(CreatedFiles, change.file_index, CreatedP)

\* C8: with exactly one file missing from a multi-file target, the
\* known-bad set is exactly that file, every piece overlapping it failed,
\* and every other file sharing one of those pieces is a failed file that
\* is not known-bad.
C8_MissingFileReport ==
    (Verified /\ change.op = "delete" /\ ~target_is_file) =>
        /\ Result.ok
        /\ Result.v.files_known = {change.file_index}
        /\ PiecesOfFile(CreatedFiles, change.file_index, CreatedP)
              \subseteq Result.v.pieces
        /\ \A k \in PiecesOfFile(CreatedFiles, change.file_index, CreatedP) :
              \A g \in FilesOfPiece(CreatedFiles, k, CreatedP) \ {change.file_index} :
                 g \in Result.v.files /\ g \notin Result.v.files_known

\* the piece (0-based) that holds the changed byte
FlippedPiece ==
    (FileStart(CreatedFiles, change.file_index) + change.offset) \div CreatedP

\* C9: after changing one byte of one file, the failed pieces are exactly
\* the piece that covers the byte, the failed files exactly the files with
\* bytes in that piece, and no file is known-bad.
C9_ByteFlip ==
    (Verified /\ change.op = "flip") =>
        /\ Result.ok
        /\ Result.v.pieces = {FlippedPiece}
        /\ Result.v.files = FilesOfPiece(CreatedFiles, FlippedPiece, CreatedP)
        /\ Result.v.files_known = {}

C9_Witness ==
    /\ Verified /\ change.op = "flip"
    /\ Result.ok
    /\ Len(piece_file_info) >= 3
    /\ Cardinality(FilesOfPiece(CreatedFiles, FlippedPiece, CreatedP)) >= 2
    /\ FlippedPiece \in Result.v.pieces

-----------------------------------------------------------------------------
(* Properties of the worker pool (specification SpecHash) *)

\* the bytes of the target in the order of the file list
TargetBytes(d, files) ==
    Flatten([i \in 1..Len(files) |-> d[files[i].path]])

\* the digest of piece k (0-based): SHA-1 of bytes [k*P, (k+1)*P) of the target
PieceDigest(d, files, P, k) ==
    Sha1(SubSeq(TargetBytes(d, files), k * P + 1,
                Min((k + 1) * P, SumLengths(files))))

\* C4: the pieces string is the concatenation of the per-piece digests in
\* piece-index order, for every n_jobs and every order in which the
\* workers finish; it is what the one-step hash_tr_files returns.
C4_PiecesInIndexOrder ==
    IsSome(hp_result) =>
        LET a == Unwrap(hp_args)
            K == DivCeil(SumLengths(a.tr_files), a.piece_length)
        IN /\ Unwrap(hp_result).ok
           /\ Unwrap(hp_result).v =
                 Flatten([j \in 1..K |->
                            PieceDigest(disk, a.tr_files, a.piece_length, j - 1)])
           /\ Unwrap(hp_result) = hash_tr_files(disk, a.tr_files, a.piece_length)

C4_Witness ==
    /\ IsSome(hp_result)
    /\ Unwrap(hp_result).ok
    /\ Unwrap(hp_args).n_jobs = 2
    /\ Len(finished) >= 3
    /\ \E j \in 1..(Len(finished) - 1) : finished[j] > finished[j + 1]
    /\ Unwrap(slots[finished[1] + 1]) # Unwrap(slots[finished[2] + 1])

-----------------------------------------------------------------------------
(* Properties of hash_piece_file under I/O errors (specification           *)
(* SpecHashIo)                                                             *)

\* the pieces whose closure returned an error
FailedSlots ==
    {i \in 0..(Len(slots) - 1) : IsSome(slots[i + 1]) /\ ~Unwrap(slots[i + 1]).ok}

\* the files of piece i (0-based) that cannot be opened
Offending(i) ==
    {JoinFullPath(Unwrap(hp_args).tr_files[piece_file_info[i + 1][k].file_index + 1]) :
        k \in 1..Len(piece_file_info[i + 1])} \ DOMAIN disk

\* C18: when opening, seeking or reading a file fails while a piece is
\* hashed, hash_piece_file returns an error for the whole operation, no
\* pieces string, and the error names the offending file and the piece
\* index.
C18_IoErrorNamesFileAndPiece ==
    (IsSome(hp_result) /\ FailedSlots # {}) =>
        /\ ~Unwrap(hp_result).ok
        /\ LET e == Unwrap(hp_result).err
           IN /\ {"path", "piece"} \subseteq DOMAIN e
              /\ e.piece \in FailedSlots
              /\ e.path \in Offending(e.piece)

-----------------------------------------------------------------------------
(* Properties of TrInfo::new (specification Spec) *)

RECURSIVE SumSizes(_, _)
\* the bytes on disk under the given paths
SumSizes(d, paths) ==
    IF paths = {} THEN 0
    ELSE LET p == CHOOSE q \in paths : TRUE
         IN Len(d[p]) + SumSizes(d, paths \ {p})

DiskTotal == SumSizes(disk, DOMAIN disk)

\* C14: after TrInfo::new succeeds the pieces string has length
\* 20 * ceil(S / piece_length), where S, the sum of the recorded file
\* lengths, is the sum of the file sizes, and is `length` for a single file.
C14_PiecesLength ==
    pc = "created" =>
        /\ CreatedTotal = DiskTotal
        /\ Len(Unwrap(info).pieces) = 20 * DivCeil(DiskTotal, CreatedP)
        /\ IsSome(Unwrap(info).length) => Unwrap(Unwrap(info).length) = DiskTotal

C14_Witness ==
    /\ pc = "created"
    /\ ~target_is_file
    /\ Len(CreatedFiles) >= 2
    /\ DiskTotal % CreatedP # 0
    /\ Len(Unwrap(info).pieces) >= 40

\* C15: after TrInfo::new succeeds exactly one of `files` and `length` is
\* present.  For a regular file the InfoBlock has `length`, the file's
\* size, and no `files`, and the pieces are the hash of a one-entry file
\* list with the empty path and that size; for a directory it has `files`,
\* one entry per file with its size, and no `length`.
C15_FilesXorLength ==
    pc = "created" =>
        LET self == Unwrap(info)
        IN /\ IsSome(self.files) # IsSome(self.length)
           /\ target_is_file =>
                 /\ self.length = Some(Len(disk[<<>>]))
                 /\ self.files = None
                 /\ Ok(self.pieces) =
                       hash_tr_files(disk, <<TrFile(Len(disk[<<>>]), <<>>)>>,
                                     self.piece_length)
           /\ ~target_is_file =>
                 /\ self.length = None
                 /\ IsSome(self.files)
                 /\ {Unwrap(self.files)[k].path : k \in 1..Len(Unwrap(self.files))}
                       = DOMAIN disk
                 /\ \A k \in 1..Len(Unwrap(self.files)) :
                       Unwrap(self.files)[k].length =
                          Len(disk[Unwrap(self.files)[k].path])

C15_Witness ==
    /\ pc = "created"
    /\ target_is_file
    /\ Len(disk[<<>>]) >= 2
    /\ Unwrap(info).length = Some(Len(disk[<<>>]))

-----------------------------------------------------------------------------
(* Properties of the codec (specification SpecCodec)                       *)

\* the file at torrent_path is what write_to_file wrote from a Torrent
\* whose InfoBlock create_torrent built
WroteCreated ==
    /\ wr = Some(Ok(<<>>))
    /\ IsSome(Unwrap(torrent).info)

\* C5: every Torrent the encoder emits over an InfoBlock that create built,
\* the one of a zero-byte target included, is accepted by read_torrent,
\* which returns an equal Torrent, and encoding that result again yields
\* the bytes that were read.
C5_RoundTrip ==
    (pc = "read" /\ WroteCreated) =>
        /\ Unwrap(rd).ok
        /\ Unwrap(rd).v = Unwrap(torrent)
        /\ Torrent_bencode(Unwrap(rd).v) = Unwrap(tfile)

\* the bytes of the input that decoded as the value of the top-level `info`
InfoSpan(bytes) ==
    LET root == parse_bencode(bytes, 0)
    IN SubSeq(bytes, root.v.span[K_info][1] + 1, root.v.span[K_info][2])

\* C6: the info hash of a Torrent that read_torrent parsed is the SHA-1 of
\* the exact input bytes that decoded as the value of `info`, whatever the
\* key order of that dictionary and whatever `hash` entry the input stores.
C6_InfoHashOfSpan ==
    (pc = "read" /\ Unwrap(rd).ok) =>
        Unwrap(rd).v.hash = Some(HexEncode(Sha1(InfoSpan(Unwrap(tfile)))))

\* the bytes of the keys the encoder writes, in ascending order
ByteOrder ==
    <<" ", "-", "a", "b", "c", "d", "e", "f", "g", "h", "i", "j", "k", "l", "m",
      "n", "o", "p", "q", "r", "s", "t", "u", "v", "w", "x", "y", "z">>

ByteRank(b) == CHOOSE k \in 1..Len(ByteOrder) : ByteOrder[k] = b

RECURSIVE BytesLess(_, _)
\* a < b in lexicographic byte order
BytesLess(a, b) ==
    IF a = <<>> THEN b # <<>>
    ELSE IF b = <<>> THEN FALSE
    ELSE IF a[1] = b[1] THEN BytesLess(Tail(a), Tail(b))
    ELSE ByteRank(a[1]) < ByteRank(b[1])

StrictlyAscending(keys) ==
    \A k \in 1..(Len(keys) - 1) : BytesLess(keys[k], keys[k + 1])

RECURSIVE DictsAscending(_)
\* every dictionary of a decoded value had its keys in ascending order
DictsAscending(value) ==
    IF value.tag = "Dict"
    THEN /\ StrictlyAscending(value.keys)
         /\ \A key \in DOMAIN value.v : DictsAscending(value.v[key])
    ELSE IF value.tag = "List"
    THEN \A k \in 1..Len(value.v) : DictsAscending(value.v[k])
    ELSE TRUE

\* C10: every dictionary the encoder writes (Torrent, TrInfo, TrFile) has
\* its keys in strictly ascending byte order, for every combination of
\* optional fields, the top-level `hash` included.
C10_KeysAscending ==
    wr = Some(Ok(<<>>)) =>
        LET root == parse_bencode(Unwrap(tfile), 0)
        IN root.ok /\ DictsAscending(root.v)

\* C16: write_to_file with force = false on a path that exists returns
\* AlreadyExists and leaves the file as it was; with force = true, or when
\* the path does not exist, it does not refuse, and unless the system fails
\* the create or the write it returns Ok and the path holds the full
\* encoding of the Torrent.
C16_ForceAndExists ==
    IsSome(wr_call) =>
        LET c == Unwrap(wr_call)
        IN /\ (~c.force /\ IsSome(c.before)) =>
                 /\ wr = Some(Err("AlreadyExists"))
                 /\ tfile = c.before
           /\ (c.force \/ c.before = None) =>
                 /\ wr \in {Some(Ok(<<>>)), Some(Err("Io"))}
                 /\ wr = Some(Ok(<<>>)) =>
                       tfile = Some(Torrent_bencode(Unwrap(torrent)))

C16_Witness ==
    /\ IsSome(wr_call)
    /\ Unwrap(wr_call).force
    /\ IsSome(Unwrap(wr_call).before)
    /\ wr = Some(Ok(<<>>))
    /\ tfile = Some(Torrent_bencode(Unwrap(torrent)))
    /\ tfile # Unwrap(wr_call).before

\* C17: write_to_file is atomic: whatever the outcome, an I/O failure
\* partway included, the path holds what it held before the call (nothing,
\* if it did not exist) or the complete encoding of the Torrent.
C17_WriteAtomic ==
    IsSome(wr_call) =>
        tfile \in {Unwrap(wr_call).before, Some(Torrent_bencode(Unwrap(torrent)))}

\* the decoded `info` dictionary of the file at torrent_path
InfoDictOf(bytes) == parse_bencode(bytes, 0).v.v[K_info]

\* read_torrent returned a Torrent
Accepted == pc = "read" /\ Unwrap(rd).ok

\* C11: read_torrent accepts an info dictionary only if exactly one of the
\* keys `files` and `length` is present; with both, or neither, it returns
\* an error.
C11_ExactlyOneOfFilesAndLength ==
    Accepted =>
        LET info_dict == InfoDictOf(Unwrap(tfile))
        IN (K_files \in DOMAIN info_dict.v) # (K_length \in DOMAIN info_dict.v)

\* C12: read_torrent never returns a Torrent whose pieces string has a
\* length that is not a multiple of 20.
C12_PiecesMultipleOf20 ==
    Accepted => Len(Unwrap(Unwrap(rd).v.info).pieces) % SHA1_HASH_SIZE = 0

\* the text of an integer token in canonical form: 0, or an optional '-'
\* and digits that do not start with 0
CanonicalInt(text) ==
    LET body == IF text # <<>> /\ text[1] = "-" THEN Tail(text) ELSE text
    IN \/ text = <<"0">>
       \/ AllDigits(body) /\ body[1] # "0"

RECURSIVE IntsCanonical(_)
\* every integer token of a decoded value was written in canonical form
IntsCanonical(value) ==
    IF value.tag \in {"Int", "UInt"} THEN CanonicalInt(value.text)
    ELSE IF value.tag = "Dict"
    THEN \A key \in DOMAIN value.v : IntsCanonical(value.v[key])
    ELSE IF value.tag = "List"
    THEN \A k \in 1..Len(value.v) : IntsCanonical(value.v[k])
    ELSE TRUE

\* C13: the decoder accepts an integer token only in canonical form: an
\* optional '-', then digits without a leading zero unless the number is
\* the literal 0, and never -0; any other text between 'i' and 'e' is an
\* error.
C13_CanonicalIntegers ==
    Accepted => IntsCanonical(parse_bencode(Unwrap(tfile), 0).v)

\* C19: the encoding of the info dictionary has the `private` key, with
\* value 1, exactly when the private flag is true; an InfoBlock with
\* private = true decodes back with private = true; and for the same
\* target the encodings, hence the hashed bytes and the info hashes, for
\* private = true and private = false differ.
C19_PrivateKey ==
    WroteCreated =>
        LET self == Unwrap(Unwrap(torrent).info)
            flipped == [self EXCEPT !.private = ~self.private]
            info_dict == InfoDictOf(Unwrap(tfile))
        IN /\ (K_private \in DOMAIN info_dict.v) <=> self.private
           /\ self.private =>
                 /\ info_dict.v[K_private].tag = "Int"
                 /\ info_dict.v[K_private].v = 1
           /\ TrInfo_bencode(flipped) # TrInfo_bencode(self)
           /\ TrInfo_hash(flipped) # TrInfo_hash(self)
           /\ (pc = "read" /\ self.private) =>
                 /\ Unwrap(rd).ok
                 /\ Unwrap(Unwrap(rd).v.info).private

\* C20: the top-level `hash` key is pass-through only: a Torrent built by
\* Torrent::new, with or without create_torrent after it, is written
\* without a `hash` key.
C20_HashNotGenerated ==
    wr = Some(Ok(<<>>)) =>
        K_hash \notin DOMAIN parse_bencode(Unwrap(tfile), 0).v.v

\* C21: Torrent::bencode writes the `announce-list` key only when the
\* announce list is present and has at least one tier; a Torrent whose
\* announce_list is an empty list is written without the key.
C21_EmptyAnnounceListOmitted ==
    wr = Some(Ok(<<>>)) =>
        LET announce_list == Unwrap(torrent).announce_list
        IN (K_announce_list \in DOMAIN parse_bencode(Unwrap(tfile), 0).v.v)
              <=> (IsSome(announce_list) /\ Len(Unwrap(announce_list)) >= 1)

\* C26: read_torrent never returns an InfoBlock whose piece length is 0;
\* an input with `piece length` = i0e is rejected with an error.
C26_PieceLengthPositive ==
    Accepted => Unwrap(Unwrap(rd).v.info).piece_length > 0


-----------------------------------------------------------------------------
(* The piece map built inline by TrInfo::verify of torrent.rs *)

\* (0..piece_count).map(|i| vec![(file_index, start_pos + piece_length * i,
\* piece_length)])
WholePieces(file_index, start_pos, piece_count, piece_length) ==
    [i \in 1..piece_count |->
        <<FileHashInfo(file_index, start_pos + piece_length * (i - 1),
                       piece_length)>>]

\* the part of the loop body after the if file_offset > 0 block;
\* st = [pfi, file_offset, pool_size], pool_size already increased
InlineTail(st, file_index, piece_length) ==
    LET piece_count == (st.pool_size + st.file_offset) \div piece_length
                          - (IF st.file_offset > 0 THEN 1 ELSE 0)
        start_pos == (piece_length - st.file_offset) % piece_length
        whole == st.pfi \o WholePieces(file_index, start_pos, piece_count,
                                       piece_length)
        file_offset == st.pool_size % piece_length
    IN IF file_offset > 0
       THEN [pfi |-> Append(whole,
                        <<FileHashInfo(file_index,
                                       start_pos + piece_length * piece_count,
                                       file_offset)>>),
             file_offset |-> file_offset, pool_size |-> file_offset]
       ELSE [pfi |-> whole, file_offset |-> 0, pool_size |-> 0]

\* one iteration of for (file_index, tr_file) in tr_files.iter().enumerate()
InlineFile(st, file_index, tr_file, piece_length) ==
    LET pool_size == st.pool_size + tr_file.length
        last == Len(st.pfi)
        PushLast(length) ==
            [st.pfi EXCEPT ![last] = Append(@, FileHashInfo(file_index, 0, length))]
    IN IF st.file_offset > 0 /\ last > 0
       THEN IF pool_size > piece_length
            THEN InlineTail([pfi |-> PushLast(piece_length - st.file_offset),
                             file_offset |-> st.file_offset,
                             pool_size |-> pool_size],
                            file_index, piece_length)
            ELSE IF pool_size < piece_length
            THEN [pfi |-> PushLast(tr_file.length),
                  file_offset |-> st.file_offset + tr_file.length,
                  pool_size |-> pool_size]
            ELSE [pfi |-> PushLast(tr_file.length),
                  file_offset |-> 0, pool_size |-> 0]
       ELSE InlineTail([st EXCEPT !.pool_size = pool_size], file_index,
                       piece_length)

RECURSIVE InlineFiles(_, _, _, _)
InlineFiles(st, tr_files, file_index, piece_length) ==
    IF file_index >= Len(tr_files) THEN st
    ELSE InlineFiles(InlineFile(st, file_index, tr_files[file_index + 1],
                                piece_length),
                     tr_files, file_index + 1, piece_length)

\* let mut piece_file_info .. built before split_hash_pieces in TrInfo::verify
inline_piece_file_info(tr_files, piece_length) ==
    InlineFiles([pfi |-> <<>>, file_offset |-> 0, pool_size |-> 0],
                tr_files, 0, piece_length).pfi

\* C24: the piece map built inline by TrInfo::verify of torrent.rs is the
\* plan of calc_piece_file_info: the same triples in every piece, hence the
\* same number of pieces and no triple reaching beyond its file's length.
C24_InlinePlanEqualsPlan ==
    pc # "init" =>
        LET inline == inline_piece_file_info(CreatedFiles, CreatedP)
        IN /\ inline = piece_file_info
           /\ \A i \in 1..Len(inline) : \A j \in 1..Len(inline[i]) :
                 inline[i][j].file_offset + inline[i][j].length
                    <= CreatedFiles[inline[i][j].file_index + 1].length

\* the triples of file i, in plan order
TriplesOfFile(i) ==
    SelectSeq(Flatten(piece_file_info), LAMBDA t : t.file_index = i)

\* C25: the triples of the plan are in file order; those of file i split
\* [0, L_i) into consecutive pieces starting at offset 0, so every byte of
\* every file is covered exactly once and every file of nonzero length
\* appears; only the first triple of a file has file_offset 0; every triple
\* has a length in 1..piece_length.
C25_PlanPartitionsFiles ==
    pc # "init" =>
        LET plan == Flatten(piece_file_info)
        IN /\ \A j \in 1..Len(plan) :
                 /\ plan[j].file_index \in 0..(Len(CreatedFiles) - 1)
                 /\ plan[j].length \in 1..CreatedP
                 /\ j > 1 => plan[j - 1].file_index <= plan[j].file_index
           /\ \A i \in 0..(Len(CreatedFiles) - 1) :
                 LET own == TriplesOfFile(i)
                 IN /\ CreatedFiles[i + 1].length > 0 => Len(own) >= 1
                    /\ SumTriples(own) = CreatedFiles[i + 1].length
                    /\ \A j \in 1..Len(own) :
                          /\ own[j].file_offset = SumTriples(SubSeq(own, 1, j - 1))
                          /\ own[j].file_offset = 0 => j = 1

C25_Witness ==
    /\ pc = "created"
    /\ SharesPieces
    /\ \E i \in 0..(Len(CreatedFiles) - 1) : Len(TriplesOfFile(i)) >= 2
    /\ \E i \in 0..(Len(CreatedFiles) - 1) : CreatedFiles[i + 1].length = 0

\* every listed file is on disk with the length the list records for it
ListMatchesDisk ==
    \A k \in 1..Len(CreatedFiles) :
        FileOk(disk, JoinFullPath(CreatedFiles[k]), CreatedFiles[k])

CreateFailed == pc = "new" /\ pc' = "exit"
HasInfo(t) == IsSome(t) /\ IsSome(Unwrap(t).info)

C27_ParseReturnsValueOrError ==
    (pc = "read" /\ IsSome(tfile)) =>
        LET data == Unwrap(tfile)
            r == parse_bencode(data, 0)
        IN IF r.ok THEN r.pos <= Len(data) ELSE r.err # PanicEndOverflow

-----------------------------------------------------------------------------
(* Verify an InfoBlock that was read from a metainfo file                  *)
(* (specification SpecLoaded)                                              *)

\* the digests another tool may have stored for a plan of n pieces: the
\* right ones, one too few, or one more
StoredDigests(pieces, delta) ==
    LET piece_slices == split_hash_pieces(pieces)
    IN IF delta < 0 THEN Flatten(SubSeq(piece_slices, 1, Len(piece_slices) - 1))
       ELSE IF delta > 0 THEN pieces \o Sha1(<<"z">>)
       ELSE pieces

\* the metainfo file of the target for the given piece length, with the
\* stored digests as given by delta
MetainfoOf(d, is_file, piece_length, delta) ==
    LET made == TrInfo_new(d, is_file, piece_length, FALSE).v
        stored == [made EXCEPT !.pieces = StoredDigests(made.pieces, delta)]
    IN Torrent_bencode([Torrent_new(None, None, None, None, None, None)
                           EXCEPT !.info = Some(stored)])

\* main, verify mode: Torrent::read_torrent(torrent_path), then get_info
LoadTorrent(piece_length, delta) ==
    /\ pc = "init"
    /\ LET bcode == MetainfoOf(disk, target_is_file, piece_length, delta)
           r == read_torrent(bcode)
       IN /\ r.ok
          /\ tfile' = Some(bcode)
          /\ rd' = Some(r)
          /\ info' = r.v.info
          /\ piece_file_info' =
                calc_piece_file_info(InfoFiles(Unwrap(r.v.info)), piece_length)
    /\ pc' = "created"
    /\ UNCHANGED <<disk, target_is_file, report, change>>
    /\ UNCHANGED <<torrent, wr, wr_call>>

NextL ==
    /\ \/ \E piece_length \in 1..MaxPiece : \E delta \in {0 - 1, 0, 1} :
             LoadTorrent(piece_length, delta)
       \/ (\E p \in DOMAIN disk : DeleteFile(p)) /\ UNCHANGED varsC
       \/ Verify /\ UNCHANGED varsC
    /\ UNCHANGED <<varsH, walk>>

SpecLoaded == InitV /\ [][NextL]_vars

Panics == {"panic: subtract with overflow", "panic: index out of bounds"}

\* C29: verify of an InfoBlock that read_torrent accepted ends with a
\* report or with an error value, never with a panic, also when the number
\* of stored digests is not the number of pieces of the plan.
C29_VerifyOfLoadedInfoReturns ==
    Verified => (Result.ok \/ Result.err \notin Panics)

-----------------------------------------------------------------------------
(* The walk modes of TrInfo::new (specification SpecWalk)                  *)

MaxWalkFiles == 3
MaxWalkLen == 1

\* the characters of the file names of SpecWalk, in code point order
CharOrder == <<"A", "a", "b", "c", "x", "y">>

CharRank(c) == CHOOSE k \in 1..Len(CharOrder) : CharOrder[k] = c

\* char::to_lowercase
ToLowercase(c) == IF c = "A" THEN "a" ELSE c

\* the paths a target directory of SpecWalk may hold; a path is a sequence
\* of segments, a segment a sequence of characters
WalkPaths ==
    {<< <<"b">> >>, << <<"c">> >>, << <<"a">>, <<"x">> >>,
     << <<"A">>, <<"x">> >>, << <<"a">>, <<"c">>, <<"y">> >>}

\* Ord::cmp on two numbers
CmpNat(m, n) == IF m < n THEN "Less" ELSE IF m > n THEN "Greater" ELSE "Equal"

RECURSIVE StrCmp(_, _)
\* String::cmp: byte-wise lexicographic
StrCmp(a, b) ==
    IF a = <<>> /\ b = <<>> THEN "Equal"
    ELSE IF a = <<>> THEN "Less"
    ELSE IF b = <<>> THEN "Greater"
    ELSE IF a[1] # b[1] THEN CmpNat(CharRank(a[1]), CharRank(b[1]))
    ELSE StrCmp(Tail(a), Tail(b))

RECURSIVE PathCmp(_, _)
\* Vec<String>::cmp: lexicographic over the segments
PathCmp(a, b) ==
    IF a = <<>> /\ b = <<>> THEN "Equal"
    ELSE IF a = <<>> THEN "Less"
    ELSE IF b = <<>> THEN "Greater"
    ELSE IF StrCmp(a[1], b[1]) # "Equal" THEN StrCmp(a[1], b[1])
    ELSE PathCmp(Tail(a), Tail(b))

RECURSIVE compare_ignore_case(_, _)
\* natord::compare_ignore_case on names without digits and whitespace:
\* character by character on the lowercased characters, a proper prefix first
compare_ignore_case(left, right) ==
    IF left = <<>> /\ right = <<>> THEN "Equal"
    ELSE IF left = <<>> THEN "Less"
    ELSE IF right = <<>> THEN "Greater"
    ELSE LET ord == CmpNat(CharRank(ToLowercase(left[1])),
                           CharRank(ToLowercase(right[1])))
         IN IF ord # "Equal" THEN ord
            ELSE compare_ignore_case(Tail(left), Tail(right))

RECURSIVE FindAlphabetical(_, _, _)
\* a.path.iter().zip(b.path.iter()).find_map(..) of BreadthFirstAlphabetical,
\* from segment depth on: Some(ordering) or None
FindAlphabetical(a, b, depth) ==
    IF depth >= Min(Len(a.path), Len(b.path)) THEN None
    ELSE LET cmp_res == compare_ignore_case(a.path[depth + 1], b.path[depth + 1])
         IN IF cmp_res # "Equal" THEN Some(cmp_res)
            ELSE FindAlphabetical(a, b, depth + 1)

RECURSIVE FindLevel(_, _, _)
\* .zip(..).enumerate().find_map(..) of BreadthFirstLevel, from depth on
FindLevel(a, b, depth) ==
    IF depth >= Min(Len(a.path), Len(b.path)) THEN None
    ELSE LET a_ends == depth = Len(a.path) - 1
             b_ends == depth = Len(b.path) - 1
             cmp_res == compare_ignore_case(a.path[depth + 1], b.path[depth + 1])
         IN IF a_ends /\ ~b_ends THEN Some("Less")
            ELSE IF ~a_ends /\ b_ends THEN Some("Greater")
            ELSE IF cmp_res # "Equal" THEN Some(cmp_res)
            ELSE FindLevel(a, b, depth + 1)

\* the closure of WalkMode::BreadthFirstAlphabetical
CmpBreadthFirstAlphabetical(a, b) ==
    LET found == FindAlphabetical(a, b, 0)
    IN IF IsSome(found) THEN Unwrap(found)
       ELSE CmpNat(Len(a.path), Len(b.path))

\* as CmpBreadthFirstLevel, without the match on the paths' ends
CmpBreadthFirstLevelMutNoEnds(a, b) == CmpBreadthFirstAlphabetical(a, b)

\* the closure of WalkMode::BreadthFirstLevel
CmpBreadthFirstLevel(a, b) ==
    LET found == FindLevel(a, b, 0)
    IN IF IsSome(found) THEN Unwrap(found)
       ELSE CmpNat(Len(a.path), Len(b.path))

WalkModes ==
    {"Default", "Alphabetical", "BreadthFirstAlphabetical", "BreadthFirstLevel",
     "FileSize"}

\* the closure given to sort_by in each walk mode
WalkCmp(walk_mode, a, b) ==
    IF walk_mode = "Alphabetical" THEN PathCmp(a.path, b.path)
    ELSE IF walk_mode = "BreadthFirstAlphabetical"
    THEN CmpBreadthFirstAlphabetical(a, b)
    ELSE IF walk_mode = "BreadthFirstLevel" THEN CmpBreadthFirstLevel(a, b)
    ELSE CmpNat(b.length, a.length)

RECURSIVE InsertPos(_, _, _, _)
\* where a stable sort puts x among the sorted elements before it: behind
\* the last element that x is not Less than
InsertPos(walk_mode, sorted, x, j) ==
    IF j > 0 /\ WalkCmp(walk_mode, x, sorted[j]) = "Less"
    THEN InsertPos(walk_mode, sorted, x, j - 1) ELSE j

RECURSIVE sort_by(_, _, _)
\* slice::sort_by: a stable sort, the elements of v taken in order
sort_by(walk_mode, v, sorted) ==
    IF v = <<>> THEN sorted
    ELSE LET j == InsertPos(walk_mode, sorted, Head(v), Len(sorted))
         IN sort_by(walk_mode, Tail(v),
                    SubSeq(sorted, 1, j) \o <<Head(v)>>
                       \o SubSeq(sorted, j + 1, Len(sorted)))

\* match walk_mode { Default => {}, .. => tr_files.sort_by(..) }
WalkSort(walk_mode, tr_files) ==
    IF walk_mode = "Default" THEN tr_files
    ELSE sort_by(walk_mode, tr_files, <<>>)

\* the orders in which WalkDir may yield the files of the target
EnumerationOrders(d) ==
    {order \in [1..Cardinality(DOMAIN d) -> DOMAIN d] :
        \A i, k \in 1..Cardinality(DOMAIN d) : i # k => order[i] # order[k]}

\* tr_files.push(TrFile { length, path }) for each entry in that order
Enumerated(d, order) ==
    [k \in 1..Len(order) |-> TrFile(Len(d[order[k]]), order[k])]

InitW ==
    /\ IdleH
    /\ IdleC
    /\ target_is_file = FALSE
    /\ \E S \in SUBSET WalkPaths :
          /\ Cardinality(S) <= MaxWalkFiles
          /\ \E lens \in [S -> 0..MaxWalkLen] :
                disk = [p \in S |-> Content(1, lens[p])]
    /\ info = None
    /\ piece_file_info = <<>>
    /\ report = None
    /\ pc = "init"
    /\ change = NoChange

\* TrInfo::new up to the match on walk_mode: walk, then sort
Walk(walk_mode, order) ==
    /\ walk = None
    /\ walk' = Some([walk_mode |-> walk_mode,
                     walked |-> Enumerated(disk, order),
                     tr_files |-> WalkSort(walk_mode, Enumerated(disk, order))])
    /\ UNCHANGED <<varsV, varsH, varsC>>

NextW ==
    \E walk_mode \in WalkModes : \E order \in EnumerationOrders(disk) :
        Walk(walk_mode, order)

SpecWalk == InitW /\ [][NextW]_vars

Walked == Unwrap(walk)

\* C22: in every walk mode but Default the sorted file list is the same for
\* every order in which the walk may enumerate the files of the target.
C22_OrderIndependentOfEnumeration ==
    (IsSome(walk) /\ Walked.walk_mode # "Default") =>
        \A order \in EnumerationOrders(disk) :
            WalkSort(Walked.walk_mode, Enumerated(disk, order)) = Walked.tr_files

\* paths a and b agree, case ignored, on the d segments before depth d
AgreeBefore(a, b, d) ==
    \A k \in 1..d : compare_ignore_case(a[k], b[k]) = "Equal"

\* C23: in BreadthFirstLevel mode an entry whose path ends at depth d comes
\* before every entry whose path goes deeper and agrees with it, case
\* ignored, on the segments before d, whatever the names at depth d are.
C23_TerminalBeforeDeeper ==
    (IsSome(walk) /\ Walked.walk_mode = "BreadthFirstLevel") =>
        \A i, j \in 1..Len(Walked.tr_files) :
            LET a == Walked.tr_files[i].path
                b == Walked.tr_files[j].path
            IN (Len(b) > Len(a) /\ AgreeBefore(a, b, Len(a) - 1)) => i < j

C23_Witness ==
    /\ IsSome(walk) /\ Walked.walk_mode = "BreadthFirstLevel"
    /\ Len(Walked.tr_files) = 3
    /\ Walked.walked[1].path = << <<"a">>, <<"c">>, <<"y">> >>
    /\ Walked.walked[2].path = << <<"a">>, <<"x">> >>
    /\ Walked.walked[3].path = << <<"c">> >>
    /\ Walked.tr_files[1].path = << <<"c">> >>
    /\ Walked.tr_files[2].path = << <<"a">>, <<"x">> >>

=============================================================================
